---- MODULE Spec2Model ----
(***************************************************************************)
(* A model of blackjack.py: the Shoe, the Hand, the players and the round  *)
(* engine (Game.play / Game.play_round) of the text-based blackjack game.  *)
(*                                                                         *)
(* Shoe.cards and Shoe.garbage_pile are Python lists.  The only reads of   *)
(* them are cards.pop(), after a shuffle() that leaves the list in an      *)
(* arbitrary order, and the merge of the garbage pile into cards, which    *)
(* shuffle() follows.  Their order is therefore never observed, and the    *)
(* model keeps each list up to order, as the bag of its entries; a pop     *)
(* draws any one entry of the bag.  Hand.hand_cards keeps its order.       *)
(***************************************************************************)
EXTENDS Integers, Sequences, FiniteSets, Bags, TLC

VARIABLES
    cards,          \* Shoe.cards: the live pool
    garbage_pile,   \* Shoe.garbage_pile
    card_counter,   \* Shoe.card_counter
    total_cards,    \* Shoe.total_cards
    user_hand,      \* Game.user.hand   (hand_cards, hand_value, number_of_aces)
    dealer_hand,    \* Game.dealer.hand
    chips,          \* Game.user.chips
    bet,            \* local bet of Game.play_round
    pc,             \* the statement the program is at
    dealt,          \* number of the four initial_deal statements executed
    announced,      \* the result line printed by results() in this round
    game_error,     \* value of the GameError raised, "none" if none
    rounds,         \* number of rounds entered so far
    round_chips     \* history: user.chips when play_round was entered

vars == <<cards, garbage_pile, card_counter, total_cards, user_hand,
          dealer_hand, chips, bet, pc, dealt, announced, game_error,
          rounds, round_chips>>

shoe_vars == <<cards, garbage_pile, card_counter, total_cards>>

hand_vars == <<user_hand, dealer_hand>>

(***************************************************************************)
(* Bounds.                                                                 *)
(***************************************************************************)
NumRanks == 4       \* ranks of RankOrder that the modelled deck holds
NumSuits == 2       \* suits of SuitOrder that the modelled deck holds
MaxRounds == 2      \* rounds a session may enter
MaxSmallBet == 1    \* bets typed: 0..MaxSmallBet, all the chips, one more
MaxHandLen == 4     \* cards added to a free-standing Hand
MaxDecks == 3       \* number_of_decks that shuffle_required is tabulated for

(***************************************************************************)
(* Suit, Rank, Card, Deck.                                                 *)
(***************************************************************************)
SuitOrder == <<"clubs", "diamonds", "hearts", "spades">>

RankOrder == <<"ace", "king", "five", "nine", "two", "ten", "six", "jack",
               "three", "seven", "queen", "four", "eight">>

RankValue == [ace |-> "Ace", two |-> "2", three |-> "3", four |-> "4",
              five |-> "5", six |-> "6", seven |-> "7", eight |-> "8",
              nine |-> "9", ten |-> "10", jack |-> "Jack",
              queen |-> "Queen", king |-> "King"]

\* int(card.rank.value) for the labels that are digit strings
int(s) ==
    CASE s = "2" -> 2 [] s = "3" -> 3 [] s = "4" -> 4 [] s = "5" -> 5
      [] s = "6" -> 6 [] s = "7" -> 7 [] s = "8" -> 8 [] s = "9" -> 9
      [] s = "10" -> 10

Suit == {SuitOrder[i] : i \in 1..NumSuits}

Rank == {RankOrder[i] : i \in 1..NumRanks}

Card(rank, suit) == [rank |-> rank, suit |-> suit]

is_ace(card) == card.rank = "ace"

is_face(card) == card.rank = "jack" \/ card.rank = "queen" \/ card.rank = "king"

Deck == {Card(rank, suit) : rank \in Rank, suit \in Suit}

\* Python's None, returned by deal_card on an empty pool
None == [rank |-> "None", suit |-> "None"]

FullDeckSize == Len(RankOrder) * Len(SuitOrder)

(***************************************************************************)
(* Helpers on sequences of cards.                                          *)
(***************************************************************************)
Range(s) == {s[i] : i \in 1..Len(s)}

\* number of entries of s that are the card c
Copies(s, c) == Cardinality({i \in 1..Len(s) : s[i] = c})

\* the entries of the list s, up to order
ListBag(s) == [c \in Range(s) |-> Copies(s, c)]

(***************************************************************************)
(* Hand.                                                                   *)
(***************************************************************************)
Hand == [hand_cards |-> <<>>, hand_value |-> 0, number_of_aces |-> 0]

\* mutant: an ace stays at 11 when the value goes over 21
update_hand_value_no_demotion(h, card) ==
    IF is_ace(card)
    THEN [h EXCEPT !.number_of_aces = @ + 1, !.hand_value = @ + 11]
    ELSE IF is_face(card)
    THEN [h EXCEPT !.hand_value = @ + 10]
    ELSE [h EXCEPT !.hand_value = @ + int(RankValue[card.rank])]

update_hand_value(h, card) ==
    LET added ==
            IF is_ace(card)
            THEN [h EXCEPT !.number_of_aces = @ + 1, !.hand_value = @ + 11]
            ELSE IF is_face(card)
            THEN [h EXCEPT !.hand_value = @ + 10]
            ELSE [h EXCEPT !.hand_value = @ + int(RankValue[card.rank])]
    IN  IF added.hand_value > 21 /\ added.number_of_aces > 0
        THEN [added EXCEPT !.hand_value = @ - 10, !.number_of_aces = @ - 1]
        ELSE added

\* add_card(None) appends None and then fails in update_hand_value with an
\* AttributeError: the append stays, the value is not updated.
add_card(h, card) ==
    LET appended == [h EXCEPT !.hand_cards = Append(@, card)]
    IN  IF card = None THEN appended ELSE update_hand_value(appended, card)

\* mutant: the cards are given back but value and ace count stay
reset_hand_keeps_value(h) == [h EXCEPT !.hand_cards = <<>>]

reset_hand(h) == Hand

(***************************************************************************)
(* Player, User, Dealer.                                                   *)
(***************************************************************************)
\* mutant: the user may hit whatever the hand is worth
can_hit_always(h) == TRUE

\* mutant: a hand of exactly 21 can still be hit
can_hit_at_21(h) == h.hand_value <= 21

can_hit(h) == h.hand_value < 21

is_bust(h) == h.hand_value > 21

\* mutant: a balance of zero counts as having chips
has_chips_zero == chips >= 0

has_chips == chips > 0

\* mutant: the dealer also hits at 17
advised_to_hit_at_17(h) == h.hand_value <= 17

advised_to_hit(h) == h.hand_value < 17

(***************************************************************************)
(* Shoe.                                                                   *)
(***************************************************************************)
\* mutant: the dealt-count is raised before the empty pool is noticed
deal_card_counts_first(card) ==
    /\ card_counter' = card_counter + 1
    /\ IF cards = EmptyBag
       THEN card = None /\ UNCHANGED cards
       ELSE card \in BagToSet(cards) /\ cards' = cards (-) SetToBag({card})

\* deal_card() returning card: None and no change on an empty pool
deal_card(card) ==
    IF cards = EmptyBag
    THEN /\ card = None
         /\ UNCHANGED <<cards, card_counter>>
    ELSE /\ card \in BagToSet(cards)
         /\ cards' = cards (-) SetToBag({card})
         /\ card_counter' = card_counter + 1

\* mutant: the threshold is reached at exactly half the shoe
ShuffleRequiredAtHalf(total, counter) == (total \div 2) <= counter

\* mutant: a shuffle is asked for only when the whole shoe has been dealt
ShuffleRequiredWhenAllDealt(total, counter) == total < counter

\* total_cards / 2 < card_counter with Python 3 true division; for integers
\* x / 2 < c exactly when floor(x / 2) < c
ShuffleRequired(total, counter) == (total \div 2) < counter

shuffle_required == ShuffleRequired(total_cards, card_counter)

get_cards_to_garbage_pile(pile, discarded_cards) ==
    pile (+) ListBag(discarded_cards)

\* mutant: the garbage pile is merged but not emptied
shuffle_cards_keeps_pile ==
    /\ cards' = cards (+) garbage_pile
    /\ garbage_pile' = garbage_pile
    /\ card_counter' = 0

\* the pool takes the garbage pile back, in whatever order shuffle() leaves
shuffle_cards ==
    /\ cards' = cards (+) garbage_pile
    /\ garbage_pile' = EmptyBag
    /\ card_counter' = 0

(***************************************************************************)
(* Game: construction.                                                     *)
(***************************************************************************)
StartChips == 100

min_bet == 1

Init ==
    /\ cards = SetToBag(Deck)
    /\ garbage_pile = EmptyBag
    /\ card_counter = 0
    /\ total_cards = BagCardinality(SetToBag(Deck))
    /\ user_hand = Hand
    /\ dealer_hand = Hand
    /\ chips = StartChips
    /\ bet = 0
    /\ pc = "play"
    /\ dealt = 0
    /\ announced = "none"
    /\ game_error = "none"
    /\ rounds = 0
    /\ round_chips = StartChips

(***************************************************************************)
(* Game.play: the session loop.                                            *)
(***************************************************************************)
\* while response: if not self.user.has_chips(): break
Play ==
    /\ pc = "play"
    /\ pc' = IF has_chips THEN "yes_or_no" ELSE "end_game"
    /\ UNCHANGED <<shoe_vars, hand_vars, chips, bet, dealt, announced,
                   game_error, rounds, round_chips>>

\* response = self.yes_or_no(...); an answer that is neither yes nor no is
\* asked again without any change of state
YesOrNo ==
    /\ pc = "yes_or_no"
    /\ \E answer \in {"yes", "no", "EOF"} :
          /\ answer = "yes" => rounds < MaxRounds
          /\ pc' = IF answer = "yes" THEN "shuffle_required" ELSE "end_game"
          /\ rounds' = IF answer = "yes" THEN rounds + 1 ELSE rounds
          /\ game_error' = IF answer = "EOF" THEN "EOFError" ELSE game_error
    /\ UNCHANGED <<shoe_vars, hand_vars, chips, bet, dealt, announced,
                   round_chips>>

\* mutant: play() goes on to the round without the reshuffle
ShuffleCheckSkipped ==
    /\ pc = "shuffle_required"
    /\ pc' = "number_of_chips_to_bet"
    /\ UNCHANGED <<shoe_vars, hand_vars, chips, bet, dealt, announced,
                   game_error, rounds, round_chips>>

\* if self.shoe.shuffle_required():
ShuffleCheck ==
    /\ pc = "shuffle_required"
    /\ pc' = IF shuffle_required THEN "shuffle_cards"
                                 ELSE "number_of_chips_to_bet"
    /\ UNCHANGED <<shoe_vars, hand_vars, chips, bet, dealt, announced,
                   game_error, rounds, round_chips>>

\* self.shoe.shuffle_cards()
ShuffleCards ==
    /\ pc = "shuffle_cards"
    /\ shuffle_cards
    /\ pc' = "number_of_chips_to_bet"
    /\ UNCHANGED <<total_cards, hand_vars, chips, bet, dealt, announced,
                   game_error, rounds, round_chips>>

(***************************************************************************)
(* Game.play_round.                                                        *)
(***************************************************************************)
\* the numbers typed at the bet prompt
TypedNumbers(max_bet) == (0..MaxSmallBet) \cup {max_bet, max_bet + 1}

\* mutant: the upper limit of the bet is off by one
valid_bet_above_max(number, max_bet) ==
    min_bet <= number /\ number <= max_bet + 1

\* number.isdigit() and min_bet <= int(number) <= max_bet
valid_bet(number, max_bet) == min_bet <= number /\ number <= max_bet

\* bet = self.number_of_chips_to_bet(); self.user.remove_chips(bet)
NumberOfChipsToBet ==
    /\ pc = "number_of_chips_to_bet"
    /\ \E number \in TypedNumbers(chips) \cup {-1} :
          IF min_bet > chips
          THEN /\ game_error' = "Min/Max bet error"
               /\ pc' = "end_game"
               /\ UNCHANGED <<chips, bet, dealt, announced, round_chips>>
          ELSE IF number = -1
          THEN /\ game_error' = "EOFError"
               /\ pc' = "end_game"
               /\ UNCHANGED <<chips, bet, dealt, announced, round_chips>>
          ELSE IF valid_bet(number, chips)
          THEN /\ bet' = number
               /\ chips' = chips - number
               /\ round_chips' = chips
               /\ announced' = "none"
               /\ dealt' = 0
               /\ pc' = "initial_deal"
               /\ UNCHANGED game_error
          ELSE UNCHANGED <<chips, bet, dealt, announced, round_chips,
                           game_error, pc>>
    /\ UNCHANGED <<shoe_vars, hand_vars, rounds>>

\* mutant: the user is dealt to before the dealer
InitialDealUserFirst ==
    /\ pc = "initial_deal"
    /\ \E card \in BagToSet(cards) \cup {None} :
          /\ deal_card(card)
          /\ IF dealt \in {1, 3}
             THEN /\ dealer_hand' = add_card(dealer_hand, card)
                  /\ UNCHANGED user_hand
             ELSE /\ user_hand' = add_card(user_hand, card)
                  /\ UNCHANGED dealer_hand
          /\ pc' = IF card = None THEN "crashed"
                   ELSE IF dealt = 3 THEN "user_move" ELSE "initial_deal"
    /\ dealt' = dealt + 1
    /\ UNCHANGED <<garbage_pile, total_cards, chips, bet, announced,
                   game_error, rounds, round_chips>>

\* one of the four statements of initial_deal: dealer, user, dealer, user
InitialDeal ==
    /\ pc = "initial_deal"
    /\ \E card \in BagToSet(cards) \cup {None} :
          /\ deal_card(card)
          /\ IF dealt \in {0, 2}
             THEN /\ dealer_hand' = add_card(dealer_hand, card)
                  /\ UNCHANGED user_hand
             ELSE /\ user_hand' = add_card(user_hand, card)
                  /\ UNCHANGED dealer_hand
          /\ pc' = IF card = None THEN "crashed"
                   ELSE IF dealt = 3 THEN "user_move" ELSE "initial_deal"
    /\ dealt' = dealt + 1
    /\ UNCHANGED <<garbage_pile, total_cards, chips, bet, announced,
                   game_error, rounds, round_chips>>

\* user_move: move == PlayerOption.hit
UserHit ==
    /\ pc = "user_move"
    /\ can_hit(user_hand)
    /\ \E card \in BagToSet(cards) \cup {None} :
          /\ deal_card(card)
          /\ user_hand' = add_card(user_hand, card)
          /\ pc' = IF card = None THEN "crashed" ELSE "user_move"
    /\ UNCHANGED <<garbage_pile, total_cards, dealer_hand, chips, bet, dealt,
                   announced, game_error, rounds, round_chips>>

\* user_move: move == PlayerOption.stand, break
UserStand ==
    /\ pc = "user_move"
    /\ can_hit(user_hand)
    /\ pc' = IF is_bust(user_hand) THEN "results" ELSE "dealer_move"
    /\ UNCHANGED <<shoe_vars, hand_vars, chips, bet, dealt, announced,
                   game_error, rounds, round_chips>>

\* mutant: the closed input is taken as a stand and the round goes on
UserEOFStands ==
    /\ pc = "user_move"
    /\ can_hit(user_hand)
    /\ game_error' = "EOFError"
    /\ pc' = "dealer_move"
    /\ UNCHANGED <<shoe_vars, hand_vars, chips, bet, dealt, announced,
                   rounds, round_chips>>

\* user_move: user_response raises GameError("EOFError")
UserEOF ==
    /\ pc = "user_move"
    /\ can_hit(user_hand)
    /\ game_error' = "EOFError"
    /\ pc' = "end_game"
    /\ UNCHANGED <<shoe_vars, hand_vars, chips, bet, dealt, announced,
                   rounds, round_chips>>

\* mutant: play_round runs dealer_move whether the user is bust or not
UserDoneDealerAlways ==
    /\ pc = "user_move"
    /\ ~can_hit(user_hand)
    /\ pc' = "dealer_move"
    /\ UNCHANGED <<shoe_vars, hand_vars, chips, bet, dealt, announced,
                   game_error, rounds, round_chips>>

\* user_move: the while condition self.user.can_hit() is false
UserDone ==
    /\ pc = "user_move"
    /\ ~can_hit(user_hand)
    /\ pc' = IF is_bust(user_hand) THEN "results" ELSE "dealer_move"
    /\ UNCHANGED <<shoe_vars, hand_vars, chips, bet, dealt, announced,
                   game_error, rounds, round_chips>>

\* dealer_move: one iteration of the while loop
DealerHit ==
    /\ pc = "dealer_move"
    /\ advised_to_hit(dealer_hand)
    /\ \E card \in BagToSet(cards) \cup {None} :
          /\ deal_card(card)
          /\ dealer_hand' = add_card(dealer_hand, card)
          /\ pc' = IF card = None THEN "crashed" ELSE "dealer_move"
    /\ UNCHANGED <<garbage_pile, total_cards, user_hand, chips, bet, dealt,
                   announced, game_error, rounds, round_chips>>

\* dealer_move: the while condition self.dealer.advised_to_hit() is false
DealerDone ==
    /\ pc = "dealer_move"
    /\ ~advised_to_hit(dealer_hand)
    /\ pc' = "results"
    /\ UNCHANGED <<shoe_vars, hand_vars, chips, bet, dealt, announced,
                   game_error, rounds, round_chips>>

\* mutant: a lost round takes the bet a second time
results_dealer_win_takes_bet ==
    /\ announced' = "Dealer wins."
    /\ chips' = chips - bet

results_dealer_win ==
    /\ announced' = "Dealer wins."
    /\ UNCHANGED chips

\* mutant: a win pays the stake back without the winnings
results_user_win_single ==
    /\ announced' = "User wins."
    /\ chips' = chips + bet

results_user_win ==
    /\ announced' = "User wins."
    /\ chips' = chips + bet * 2

results_tie ==
    /\ announced' = "Tie game."
    /\ chips' = chips + bet

\* mutant: the dealer also wins on equal values
results_dealer_takes_ties ==
    IF is_bust(user_hand) THEN results_dealer_win
    ELSE IF is_bust(dealer_hand) THEN results_user_win
    ELSE IF dealer_hand.hand_value >= user_hand.hand_value
         THEN results_dealer_win
    ELSE IF user_hand.hand_value > dealer_hand.hand_value
         THEN results_user_win
    ELSE results_tie

results ==
    IF is_bust(user_hand) THEN results_dealer_win
    ELSE IF is_bust(dealer_hand) THEN results_user_win
    ELSE IF dealer_hand.hand_value > user_hand.hand_value
         THEN results_dealer_win
    ELSE IF user_hand.hand_value > dealer_hand.hand_value
         THEN results_user_win
    ELSE results_tie

Results ==
    /\ pc = "results"
    /\ results
    /\ pc' = "return_cards"
    /\ UNCHANGED <<shoe_vars, hand_vars, bet, dealt, game_error, rounds,
                   round_chips>>

\* mutant: the dealer's cards are not sent to the garbage pile
return_cards_user_only ==
    /\ garbage_pile' =
          get_cards_to_garbage_pile(garbage_pile, user_hand.hand_cards)
    /\ user_hand' = reset_hand(user_hand)
    /\ dealer_hand' = reset_hand(dealer_hand)

return_cards ==
    /\ garbage_pile' =
          get_cards_to_garbage_pile(
              get_cards_to_garbage_pile(garbage_pile, user_hand.hand_cards),
              dealer_hand.hand_cards)
    /\ user_hand' = reset_hand(user_hand)
    /\ dealer_hand' = reset_hand(dealer_hand)

ReturnCards ==
    /\ pc = "return_cards"
    /\ return_cards
    /\ pc' = "play"
    /\ UNCHANGED <<cards, card_counter, total_cards, chips, bet, dealt,
                   announced, game_error, rounds, round_chips>>

(***************************************************************************)
(* main: game.end_game() after play() returned or raised GameError.        *)
(***************************************************************************)
EndGame ==
    /\ pc = "end_game"
    /\ pc' = "done"
    /\ UNCHANGED <<shoe_vars, hand_vars, chips, bet, dealt, announced,
                   game_error, rounds, round_chips>>

Next ==
    \/ Play
    \/ YesOrNo
    \/ ShuffleCheck
    \/ ShuffleCards
    \/ NumberOfChipsToBet
    \/ InitialDeal
    \/ UserHit
    \/ UserStand
    \/ UserEOF
    \/ UserDone
    \/ DealerHit
    \/ DealerDone
    \/ Results
    \/ ReturnCards
    \/ EndGame

Spec == Init /\ [][Next]_vars

(***************************************************************************)
(* A free-standing Hand: add_card called with any card, any number of      *)
(* times up to MaxHandLen, and reset_hand.  The hand is kept in user_hand; *)
(* nothing else moves.                                                     *)
(***************************************************************************)
InitHand ==
    /\ cards = SetToBag(Deck)
    /\ garbage_pile = EmptyBag
    /\ card_counter = 0
    /\ total_cards = BagCardinality(SetToBag(Deck))
    /\ user_hand = Hand
    /\ dealer_hand = Hand
    /\ chips = StartChips
    /\ bet = 0
    /\ pc = "hand"
    /\ dealt = 0
    /\ announced = "none"
    /\ game_error = "none"
    /\ rounds = 0
    /\ round_chips = StartChips

HandAddCard ==
    /\ pc = "hand"
    /\ Len(user_hand.hand_cards) < MaxHandLen
    /\ \E card \in Deck : user_hand' = add_card(user_hand, card)
    /\ UNCHANGED <<shoe_vars, dealer_hand, chips, bet, pc, dealt, announced,
                   game_error, rounds, round_chips>>

HandReset ==
    /\ pc = "hand"
    /\ user_hand.hand_cards # <<>>
    /\ user_hand' = reset_hand(user_hand)
    /\ UNCHANGED <<shoe_vars, dealer_hand, chips, bet, pc, dealt, announced,
                   game_error, rounds, round_chips>>

NextHand == HandAddCard \/ HandReset

SpecHand == InitHand /\ [][NextHand]_vars

(***************************************************************************)
(* A free-standing Shoe: deal_card, get_cards_to_garbage_pile and          *)
(* shuffle_cards called in any order.  The cards dealt are held in         *)
(* user_hand (at most MaxHandLen at a time) until they are discarded.      *)
(***************************************************************************)
InitShoe ==
    /\ cards = SetToBag(Deck)
    /\ garbage_pile = EmptyBag
    /\ card_counter = 0
    /\ total_cards = BagCardinality(SetToBag(Deck))
    /\ user_hand = Hand
    /\ dealer_hand = Hand
    /\ chips = StartChips
    /\ bet = 0
    /\ pc = "shoe"
    /\ dealt = 0
    /\ announced = "none"
    /\ game_error = "none"
    /\ rounds = 0
    /\ round_chips = StartChips

\* the next method of the shoe to be called
ShoeCall ==
    /\ pc = "shoe"
    /\ \E method \in {"deal_card", "get_cards_to_garbage_pile",
                       "shuffle_cards"} :
          /\ method = "deal_card" => Len(user_hand.hand_cards) < MaxHandLen
          /\ pc' = method
    /\ UNCHANGED <<shoe_vars, hand_vars, chips, bet, dealt, announced,
                   game_error, rounds, round_chips>>

ShoeDeal ==
    /\ pc = "deal_card"
    /\ \E card \in BagToSet(cards) \cup {None} :
          /\ deal_card(card)
          /\ user_hand' = IF card = None THEN user_hand
                                         ELSE add_card(user_hand, card)
    /\ pc' = "shoe"
    /\ UNCHANGED <<garbage_pile, total_cards, dealer_hand, chips, bet, dealt,
                   announced, game_error, rounds, round_chips>>

ShoeDiscard ==
    /\ pc = "get_cards_to_garbage_pile"
    /\ garbage_pile' =
          get_cards_to_garbage_pile(garbage_pile, user_hand.hand_cards)
    /\ user_hand' = reset_hand(user_hand)
    /\ pc' = "shoe"
    /\ UNCHANGED <<cards, card_counter, total_cards, dealer_hand, chips, bet,
                   dealt, announced, game_error, rounds, round_chips>>

ShoeShuffle ==
    /\ pc = "shuffle_cards"
    /\ shuffle_cards
    /\ pc' = "shoe"
    /\ UNCHANGED <<total_cards, hand_vars, chips, bet, dealt, announced,
                   game_error, rounds, round_chips>>

NextShoe == ShoeCall \/ ShoeDeal \/ ShoeDiscard \/ ShoeShuffle

SpecShoe == InitShoe /\ [][NextShoe]_vars

(***************************************************************************)
(* One round from the standard shoe of one full deck (13 ranks, 4 suits),  *)
(* from the initial deal to the resolution, for every order of the cards   *)
(* and every choice of the user.                                           *)
(*                                                                         *)
(* What the pool holds when a round starts depends on the rounds before.   *)
(* Here every start is covered at once: card_counter starts at the largest *)
(* count play() lets a round start with (the largest for which             *)
(* shuffle_required is false; a smaller count only leaves more cards), the *)
(* pool holds total_cards - card_counter cards as in every state of a      *)
(* session, and a deal hands on any card of the deck not yet dealt in this *)
(* round.  cards is the bag of those cards, with the suit left out (only   *)
(* __str__ reads it); the cards a hand holds are not recorded, only its    *)
(* value and its ace count.  Of the cards that add the same to a hand      *)
(* (ten, jack, queen, king) a deal takes the first still there in          *)
(* RankOrder: which of them it is changes only the name of the card.       *)
(***************************************************************************)
StandardDeck ==
    [card \in {Card(RankOrder[i], "any") : i \in 1..Len(RankOrder)}
        |-> Len(SuitOrder)]

\* the largest card_counter with which play() starts a round unshuffled
LastCountUnshuffled(total) ==
    CHOOSE counter \in 0..total :
        /\ ~ShuffleRequired(total, counter)
        /\ ShuffleRequired(total, counter + 1)

\* len(self.cards), which is total_cards - card_counter in every state
PoolSize == total_cards - card_counter

InitStandard ==
    /\ cards = StandardDeck
    /\ garbage_pile = EmptyBag
    /\ total_cards = BagCardinality(StandardDeck)
    /\ card_counter = LastCountUnshuffled(BagCardinality(StandardDeck))
    /\ user_hand = Hand
    /\ dealer_hand = Hand
    /\ chips = StartChips - min_bet
    /\ bet = min_bet
    /\ pc = "initial_deal"
    /\ dealt = 0
    /\ announced = "none"
    /\ game_error = "none"
    /\ rounds = 1
    /\ round_chips = StartChips

\* what update_hand_value adds to an empty hand for the card
CardValue(card) == update_hand_value(Hand, card).hand_value

RankPos(rank) == CHOOSE i \in 1..Len(RankOrder) : RankOrder[i] = rank

\* for each card of the deck, the cards of the same CardValue that come
\* before it in RankOrder
EarlierOfValue ==
    [card \in BagToSet(StandardDeck) |->
        {other \in BagToSet(StandardDeck) :
            /\ CardValue(other) = CardValue(card)
            /\ RankPos(other.rank) < RankPos(card.rank)}]

\* of the cards of the pool, the first in RankOrder for each CardValue
FirstOfEachValue(pool) ==
    {card \in BagToSet(pool) :
        \A other \in EarlierOfValue[card] : ~BagIn(other, pool)}

\* deal_card() returning card, the pool known by its size
deal_card_of_pool(card) ==
    IF PoolSize = 0
    THEN /\ card = None
         /\ UNCHANGED <<cards, card_counter>>
    ELSE /\ card # None
         /\ deal_card(card)

\* add_card(card) without the record of the card
add_card_value(h, card) ==
    IF card = None THEN h ELSE update_hand_value(h, card)

StandardInitialDeal ==
    /\ pc = "initial_deal"
    /\ \E card \in FirstOfEachValue(cards) \cup {None} :
          /\ deal_card_of_pool(card)
          /\ IF dealt \in {0, 2}
             THEN /\ dealer_hand' = add_card_value(dealer_hand, card)
                  /\ UNCHANGED user_hand
             ELSE /\ user_hand' = add_card_value(user_hand, card)
                  /\ UNCHANGED dealer_hand
          /\ pc' = IF card = None THEN "crashed"
                   ELSE IF dealt = 3 THEN "user_move" ELSE "initial_deal"
    /\ dealt' = dealt + 1
    /\ UNCHANGED <<garbage_pile, total_cards, chips, bet, announced,
                   game_error, rounds, round_chips>>

StandardUserHit ==
    /\ pc = "user_move"
    /\ can_hit(user_hand)
    /\ \E card \in FirstOfEachValue(cards) \cup {None} :
          /\ deal_card_of_pool(card)
          /\ user_hand' = add_card_value(user_hand, card)
          /\ pc' = IF card = None THEN "crashed" ELSE "user_move"
    /\ UNCHANGED <<garbage_pile, total_cards, dealer_hand, chips, bet, dealt,
                   announced, game_error, rounds, round_chips>>

StandardDealerHit ==
    /\ pc = "dealer_move"
    /\ advised_to_hit(dealer_hand)
    /\ \E card \in FirstOfEachValue(cards) \cup {None} :
          /\ deal_card_of_pool(card)
          /\ dealer_hand' = add_card_value(dealer_hand, card)
          /\ pc' = IF card = None THEN "crashed" ELSE "dealer_move"
    /\ UNCHANGED <<garbage_pile, total_cards, user_hand, chips, bet, dealt,
                   announced, game_error, rounds, round_chips>>

NextStandard ==
    \/ StandardInitialDeal
    \/ StandardUserHit
    \/ UserStand
    \/ UserDone
    \/ StandardDealerHit
    \/ DealerDone
    \/ Results

SpecStandard == InitStandard /\ [][NextStandard]_vars

\* The program is sequential and every input request is answered with hit or
\* stand: the round always takes its next step.
FairStandard == SpecStandard /\ WF_vars(NextStandard)

(***************************************************************************)
(* Properties.                                                             *)
(***************************************************************************)
\* the entries of a hand that are cards
HeldCards(h) == SelectSeq(h.hand_cards, LAMBDA c : c # None)

\* the outcome the rules give for the two hand values, in priority order
RuleOutcome(user_value, dealer_value) ==
    IF user_value > 21 THEN "Dealer wins."
    ELSE IF dealer_value > 21 THEN "User wins."
    ELSE IF dealer_value > user_value THEN "Dealer wins."
    ELSE IF user_value > dealer_value THEN "User wins."
    ELSE "Tie game."

\* results() has run for the current round and the hands are still held
Resolved == pc = "return_cards"

\* C1: a resolved round that began with round_chips chips and a bet with
\* 1 <= bet <= round_chips leaves round_chips - bet chips when the dealer
\* wins, round_chips + bet when the user wins, round_chips on a tie; the
\* balance stays so after cleanup, until the next bet is placed.
C1_PayoutLaw ==
    /\ Resolved =>
          /\ 1 <= bet /\ bet <= round_chips
          /\ LET won == RuleOutcome(user_hand.hand_value,
                                    dealer_hand.hand_value)
             IN  chips = CASE won = "Dealer wins." -> round_chips - bet
                           [] won = "User wins." -> round_chips + bet
                           [] won = "Tie game." -> round_chips
    /\ announced # "none" =>
          chips = CASE announced = "Dealer wins." -> round_chips - bet
                    [] announced = "User wins." -> round_chips + bet
                    [] announced = "Tie game." -> round_chips

C1_Witness ==
    /\ Resolved
    /\ bet < round_chips
    /\ RuleOutcome(user_hand.hand_value, dealer_hand.hand_value) = "User wins."
    /\ chips = round_chips + bet

\* C2: the outcome applied to a resolved round is the first match of: user
\* over 21 - dealer wins; dealer over 21 - user wins; dealer value greater -
\* dealer wins; user value greater - user wins; equal - tie.  Before
\* results() runs no outcome is applied, afterwards exactly one is.
C2_OutcomeOrder ==
    /\ Resolved =>
          announced = RuleOutcome(user_hand.hand_value, dealer_hand.hand_value)
    /\ pc \in {"initial_deal", "user_move", "dealer_move", "results"} =>
          announced = "none"
    /\ announced \in {"none", "Dealer wins.", "User wins.", "Tie game."}

C2_Witness ==
    /\ Resolved
    /\ user_hand.hand_value = dealer_hand.hand_value
    /\ announced = "Tie game."

\* C3: in every state the cards of the live pool, the garbage pile and the
\* two hands together are exactly the cards of the deck, each once, and
\* their number is total_cards.
C3_CardConservation ==
    LET everywhere == cards (+) garbage_pile (+) ListBag(HeldCards(user_hand))
                        (+) ListBag(HeldCards(dealer_hand))
    IN  /\ everywhere = SetToBag(Deck)
        /\ BagCardinality(cards) + BagCardinality(garbage_pile)
             + Len(HeldCards(user_hand)) + Len(HeldCards(dealer_hand))
             = total_cards

C3_Witness ==
    /\ pc = "dealer_move"
    /\ BagCardinality(garbage_pile) > 0
    /\ Len(user_hand.hand_cards) = 2
    /\ Len(dealer_hand.hand_cards) = 2
    /\ card_counter = total_cards

\* C4: whatever cards are added to a hand, a value above 21 is held only
\* with no soft ace left (number_of_aces = 0).
C4_NoSoftAceAbove21 ==
    user_hand.hand_value > 21 => user_hand.number_of_aces = 0

\* a card was handed to a player in this step
CardHanded ==
    \/ Len(user_hand'.hand_cards) = Len(user_hand.hand_cards) + 1
    \/ Len(dealer_hand'.hand_cards) = Len(dealer_hand.hand_cards) + 1

\* the card handed to a player in this step
HandedCard ==
    IF Len(user_hand'.hand_cards) = Len(user_hand.hand_cards) + 1
    THEN user_hand'.hand_cards[Len(user_hand'.hand_cards)]
    ELSE dealer_hand'.hand_cards[Len(dealer_hand'.hand_cards)]

\* C5: a deal from a pool of M > 0 cards takes exactly one card out of the
\* pool, hands that card on and raises card_counter by 1; a deal from an
\* empty pool hands on None and leaves pool, garbage pile and card_counter
\* as they were.  So the pool always holds total_cards - card_counter cards.
C5_DealCard ==
    /\ [][CardHanded =>
            IF BagCardinality(cards) > 0
            THEN /\ BagCardinality(cards') = BagCardinality(cards) - 1
                 /\ card_counter' = card_counter + 1
                 /\ HandedCard # None
                 /\ cards = cards' (+) SetToBag({HandedCard})
                 /\ UNCHANGED garbage_pile
            ELSE /\ HandedCard = None
                 /\ UNCHANGED <<cards, garbage_pile, card_counter>>]_vars
    /\ [](BagCardinality(cards) = total_cards - card_counter)

C5_Witness ==
    /\ pc = "crashed"
    /\ card_counter > 0
    /\ cards = EmptyBag
    /\ user_hand.hand_cards[Len(user_hand.hand_cards)] = None

\* C6: shuffle_required is true exactly when card_counter * 2 > total_cards,
\* in every state and, where the session evaluates it, for every count of
\* every shoe of 1..MaxDecks full decks (a full deck: false at 26, true at
\* 27); the step that evaluates it leaves the shoe as it was.
C6_ShuffleRequired ==
    /\ [](shuffle_required <=> card_counter * 2 > total_cards)
    /\ [](pc = "shuffle_required" =>
            /\ \A decks \in 1..MaxDecks :
                  \A counter \in 0..(decks * FullDeckSize) :
                      ShuffleRequired(decks * FullDeckSize, counter)
                          <=> counter * 2 > decks * FullDeckSize
            /\ ~ShuffleRequired(FullDeckSize, 26)
            /\ ShuffleRequired(FullDeckSize, 27))
    /\ [][pc = "shuffle_required" =>
            /\ UNCHANGED shoe_vars
            /\ pc' = IF card_counter * 2 > total_cards
                     THEN "shuffle_cards" ELSE "number_of_chips_to_bet"]_vars

C6_Witness ==
    /\ pc = "shuffle_cards"
    /\ card_counter * 2 = total_cards + 2 - (total_cards % 2)

\* C7: in whatever state of the shoe shuffle_cards is called, cards held in
\* a hand or not, it leaves card_counter 0, the garbage pile empty and in
\* the pool exactly the cards that were in the pool or in the garbage pile;
\* the pool then holds total_cards minus the cards held in the hands.
C7_Reshuffle ==
    [][pc = "shuffle_cards" =>
          /\ card_counter' = 0
          /\ garbage_pile' = EmptyBag
          /\ cards' = cards (+) garbage_pile
          /\ BagCardinality(cards') =
                total_cards - Len(HeldCards(user_hand'))
                            - Len(HeldCards(dealer_hand'))]_vars

C7_Witness ==
    /\ pc = "shoe"
    /\ card_counter = 0
    /\ garbage_pile = EmptyBag
    /\ Len(user_hand.hand_cards) = 2
    /\ BagCardinality(cards) = total_cards - 2

\* a card of the current round has been dealt
RoundCardDealt ==
    user_hand.hand_cards # <<>> \/ dealer_hand.hand_cards # <<>>

\* C8: the balance is never negative; a bet is accepted only with
\* 1 <= bet <= balance and is taken off the balance in the same step, with
\* both hands still empty; while cards are dealt and played the balance is
\* the balance at the bet less the bet.
C8_ChipsNonNegative ==
    /\ [](chips >= 0)
    /\ [][pc = "number_of_chips_to_bet" /\ pc' = "initial_deal" =>
            /\ 1 <= bet' /\ bet' <= chips
            /\ chips' = chips - bet'
            /\ ~RoundCardDealt']_vars
    /\ [](pc \in {"initial_deal", "user_move", "dealer_move", "results"} =>
            chips = round_chips - bet /\ chips >= 0)

C8_Witness ==
    /\ pc = "initial_deal"
    /\ dealt = 0
    /\ bet = round_chips
    /\ chips = 0

\* the session is over: play() has returned or raised
SessionOver == pc \in {"end_game", "done"}

\* C9: a request that fails with EOFError ends the session and changes
\* nothing else; once the session is over nothing changes and no round
\* starts; after a failure in the user turn the round stays unresolved: no
\* dealer card, no result, no payout, no cleanup, the bet is lost.
C9_InputClosed ==
    /\ [][game_error = "none" /\ game_error' = "EOFError" =>
            /\ pc' = "end_game"
            /\ UNCHANGED <<shoe_vars, hand_vars, chips, bet, announced,
                           rounds>>]_vars
    /\ [][SessionOver =>
            /\ SessionOver'
            /\ UNCHANGED <<shoe_vars, hand_vars, chips, bet, announced,
                           rounds, game_error>>]_vars
    /\ [](game_error = "EOFError" => SessionOver)
    /\ [](game_error = "EOFError" /\ RoundCardDealt =>
            /\ chips = round_chips - bet
            /\ announced = "none"
            /\ Len(dealer_hand.hand_cards) = 2
            /\ Len(user_hand.hand_cards) >= 2
            /\ user_hand.hand_value < 21)

C9_Witness ==
    /\ pc = "done"
    /\ game_error = "EOFError"
    /\ Len(user_hand.hand_cards) = 3
    /\ chips = round_chips - bet
    /\ rounds = 2

\* C10: the play-again prompt, the reshuffle check and the bet step are
\* reached only with at least one chip, the Min/Max bet error is never
\* raised, and the loop test at a balance of 0 ends the session without
\* asking.
C10_NoRoundWithoutChips ==
    /\ [](pc \in {"yes_or_no", "shuffle_required", "shuffle_cards",
                  "number_of_chips_to_bet"} => chips >= 1)
    /\ [](game_error # "Min/Max bet error")
    /\ [][pc = "play" /\ chips = 0 => pc' = "end_game"]_vars

C10_Witness ==
    /\ pc = "end_game"
    /\ chips = 0
    /\ rounds = 1
    /\ game_error = "none"

\* the phases of a round, in order, as positions of play_round
AwaitBet == pc = "number_of_chips_to_bet"

Dealt == pc = "initial_deal"

UserTurn == pc = "user_move"

DealerTurn == pc = "dealer_move"

Cleanup == pc = "return_cards"

\* the session is between two rounds: play() is at its loop test, its
\* prompt or its reshuffle
BetweenRounds == pc \in {"play", "yes_or_no", "shuffle_required",
                         "shuffle_cards"}

\* the round was given up: an input request failed or a deal found no card
Aborted == pc \in {"end_game", "crashed"}

\* C11: a round moves from each phase only to the next one (or stays in it,
\* or is aborted): bet, deal, user turn, dealer turn, resolution, cleanup;
\* the user turn is left for the resolution exactly when the user's value
\* is above 21 and for the dealer turn otherwise; a bet is asked for only
\* from between two rounds, which only the cleanup (or the construction)
\* leads to, with both hands empty.
C11_PhaseOrder ==
    /\ [][/\ AwaitBet => AwaitBet' \/ Dealt' \/ Aborted'
          /\ Dealt => Dealt' \/ UserTurn' \/ Aborted'
          /\ UserTurn => UserTurn' \/ DealerTurn' \/ pc' = "results"
                           \/ Aborted'
          /\ UserTurn /\ pc' = "results" => user_hand.hand_value > 21
          /\ UserTurn /\ DealerTurn' => user_hand.hand_value <= 21
          /\ DealerTurn => DealerTurn' \/ pc' = "results" \/ Aborted'
          /\ pc = "results" => Cleanup'
          /\ Cleanup => pc' = "play"
          /\ pc' = "results" => UserTurn \/ DealerTurn
          /\ DealerTurn' => UserTurn \/ DealerTurn
          /\ UserTurn' => Dealt \/ UserTurn
          /\ Dealt' => AwaitBet \/ Dealt
          /\ AwaitBet' => AwaitBet \/ BetweenRounds
          /\ pc' = "play" => Cleanup
          /\ BetweenRounds => BetweenRounds' \/ AwaitBet' \/ pc' = "end_game"
         ]_vars
    /\ [](BetweenRounds \/ AwaitBet =>
            user_hand = Hand /\ dealer_hand = Hand)

C11_Witness ==
    /\ pc = "results"
    /\ user_hand.hand_value > 21
    /\ Len(dealer_hand.hand_cards) = 2
    /\ rounds = 2

\* the value of a card with an ace counted as 1
LowValue(card) ==
    IF is_ace(card) THEN 1
    ELSE IF is_face(card) THEN 10
    ELSE int(RankValue[card.rank])

RECURSIVE LowTotal(_)
\* the total of a list of cards with every ace counted as 1
LowTotal(s) == IF s = <<>> THEN 0 ELSE LowValue(Head(s)) + LowTotal(Tail(s))

\* the number of aces in a list of cards
AceCount(s) == Cardinality({i \in 1..Len(s) : is_ace(s[i])})

\* the reference blackjack value: the largest total not above 21 with each
\* ace counted as 1 or 11, or the total with every ace as 1 if there is none
BestValue(s) ==
    LET totals == {LowTotal(s) + 10 * k : k \in 0..AceCount(s)}
        fitting == {t \in totals : t <= 21}
    IN  IF fitting = {} THEN LowTotal(s)
        ELSE CHOOSE t \in fitting : \A u \in fitting : u <= t

\* C13: in play the value kept in each hand is the reference blackjack
\* value of the cards the hand holds; a hand of ace, ace, nine has value 21.
C13_ReferenceValue ==
    /\ user_hand.hand_value = BestValue(HeldCards(user_hand))
    /\ dealer_hand.hand_value = BestValue(HeldCards(dealer_hand))
    /\ \A h \in {user_hand, dealer_hand} :
          (/\ Len(h.hand_cards) = 3
           /\ is_ace(h.hand_cards[1])
           /\ is_ace(h.hand_cards[2])
           /\ h.hand_cards[3].rank = "nine") => h.hand_value = 21

C13_Witness ==
    /\ Len(user_hand.hand_cards) = 3
    /\ is_ace(user_hand.hand_cards[1])
    /\ is_ace(user_hand.hand_cards[2])
    /\ user_hand.hand_cards[3].rank = "nine"
    /\ user_hand.hand_value = 21
    /\ user_hand.number_of_aces = 1

\* the dealer's hand gets one more entry in this step
DealerHanded ==
    Len(dealer_hand'.hand_cards) = Len(dealer_hand.hand_cards) + 1

\* C14: in the dealer turn the dealer is handed a card exactly when its
\* value is below 17, and leaves the turn unchanged at 17 or more; outside
\* the initial deal and the dealer turn the dealer is handed nothing; a
\* round resolved after a dealer turn has a dealer value of at least 17.
C14_DealerPolicy ==
    /\ [][DealerTurn =>
            IF dealer_hand.hand_value < 17
            THEN DealerHanded /\ UNCHANGED user_hand
            ELSE pc' = "results" /\ UNCHANGED <<hand_vars, shoe_vars>>]_vars
    /\ [][dealer_hand'.hand_cards # dealer_hand.hand_cards /\ ~Dealt
            /\ ~Cleanup => DealerTurn /\ dealer_hand.hand_value < 17]_vars
    /\ [](pc \in {"results", "return_cards"}
            /\ user_hand.hand_value <= 21 => dealer_hand.hand_value >= 17)

C14_Witness ==
    /\ pc = "results"
    /\ Len(dealer_hand.hand_cards) = 4
    /\ dealer_hand.hand_value > 21
    /\ user_hand.hand_value <= 21

\* the user's hand gets one more entry in this step
UserHanded ==
    Len(user_hand'.hand_cards) = Len(user_hand.hand_cards) + 1

\* C15: in the user turn the user is asked (and so can hit, stand or close
\* the input) only at a value below 21; a hit hands the user exactly one
\* card and keeps the turn, a stand leaves it with the hands as they are;
\* at 21 or more the turn ends without a question; so a user with 21 from
\* the initial deal never holds a third card.
C15_UserTurn ==
    /\ [][UserTurn =>
            IF user_hand.hand_value < 21
            THEN \/ UserHanded /\ UNCHANGED dealer_hand
                               /\ (UserTurn' \/ pc' = "crashed")
                 \/ DealerTurn' /\ UNCHANGED <<hand_vars, shoe_vars>>
                 \/ pc' = "end_game" /\ game_error' = "EOFError"
                                     /\ UNCHANGED <<hand_vars, shoe_vars>>
            ELSE /\ ~UserTurn'
                 /\ game_error' = game_error
                 /\ UNCHANGED <<hand_vars, shoe_vars>>]_vars
    /\ [][user_hand'.hand_cards # user_hand.hand_cards /\ ~Dealt
            /\ ~Cleanup => UserTurn /\ user_hand.hand_value < 21]_vars
    /\ [](LET first == SubSeq(user_hand.hand_cards, 1, 2)
          IN  Len(user_hand.hand_cards) > 2 => BestValue(first) < 21)

C15_Witness ==
    /\ DealerTurn
    /\ Len(user_hand.hand_cards) = 2
    /\ user_hand.hand_value = 21

\* C16: the cleanup of a resolved round leaves both hands empty with value
\* 0 and no soft ace, adds to the garbage pile exactly the cards the two
\* hands held, and leaves the pool and card_counter as they were; so
\* between rounds and at the bet both hands are empty.
C16_Cleanup ==
    /\ [][Cleanup =>
            /\ user_hand'.hand_cards = <<>>
            /\ user_hand'.hand_value = 0
            /\ user_hand'.number_of_aces = 0
            /\ dealer_hand'.hand_cards = <<>>
            /\ dealer_hand'.hand_value = 0
            /\ dealer_hand'.number_of_aces = 0
            /\ garbage_pile' = garbage_pile (+) ListBag(user_hand.hand_cards)
                                 (+) ListBag(dealer_hand.hand_cards)
            /\ BagCardinality(garbage_pile') = BagCardinality(garbage_pile)
                 + Len(user_hand.hand_cards) + Len(dealer_hand.hand_cards)
            /\ UNCHANGED <<cards, card_counter, total_cards>>]_vars
    /\ [](pc = "play" =>
            /\ user_hand.hand_value = 0 /\ user_hand.number_of_aces = 0
            /\ dealer_hand.hand_value = 0 /\ dealer_hand.number_of_aces = 0
            /\ user_hand.hand_cards = <<>> /\ dealer_hand.hand_cards = <<>>)

C16_Witness ==
    /\ pc = "play"
    /\ rounds = 1
    /\ BagCardinality(garbage_pile) = 7
    /\ user_hand = Hand
    /\ dealer_hand = Hand

\* C17: the balance changes only when a bet is accepted (by minus the bet)
\* and when a win or a tie is paid at the resolution (by twice the bet or by
\* the bet); the deal, the two turns, the cleanup, the reshuffle and a
\* resolution for the dealer leave it as it is.
C17_ChipsChanges ==
    /\ [][chips' # chips =>
            \/ AwaitBet /\ Dealt' /\ bet' >= 1 /\ chips' = chips - bet'
            \/ /\ pc = "results"
               /\ \/ announced' = "User wins." /\ chips' = chips + 2 * bet
                  \/ announced' = "Tie game." /\ chips' = chips + bet]_vars
    /\ [][Dealt \/ UserTurn \/ DealerTurn \/ Cleanup \/ BetweenRounds
            => chips' = chips]_vars
    /\ [][pc = "results" /\ announced' = "Dealer wins."
            => chips' = chips]_vars

C17_Witness ==
    /\ Cleanup
    /\ announced = "Dealer wins."
    /\ dealer_hand.hand_value > user_hand.hand_value
    /\ Len(dealer_hand.hand_cards) > 2
    /\ chips = round_chips - bet
    /\ bet = 1

\* the shoe is reshuffled in this step: cards come back to the pool, the
\* garbage pile is emptied or card_counter falls
Reshuffled ==
    \/ BagCardinality(cards') > BagCardinality(cards)
    \/ BagCardinality(garbage_pile') < BagCardinality(garbage_pile)
    \/ card_counter' < card_counter

\* C18: the shoe is reshuffled only by play() between two rounds, with both
\* hands empty; a bet is reached without a reshuffle only if card_counter * 2
\* <= total_cards; so every initial deal starts with card_counter * 2 <=
\* total_cards and total_cards - card_counter cards in the pool.
C18_ReshuffleBetweenRounds ==
    /\ [][Reshuffled =>
            /\ pc = "shuffle_cards"
            /\ user_hand.hand_cards = <<>> /\ dealer_hand.hand_cards = <<>>
            /\ UNCHANGED hand_vars
            /\ card_counter' = 0]_vars
    /\ [][AwaitBet' /\ ~AwaitBet =>
            \/ pc = "shuffle_cards"
            \/ pc = "shuffle_required" /\ card_counter * 2 <= total_cards
                                       /\ UNCHANGED shoe_vars]_vars
    /\ [](AwaitBet \/ (Dealt /\ ~RoundCardDealt) =>
            /\ card_counter * 2 <= total_cards
            /\ BagCardinality(cards) = total_cards - card_counter)
    /\ [](RoundCardDealt => ~BetweenRounds)

C18_Witness ==
    /\ Dealt
    /\ ~RoundCardDealt
    /\ rounds = 2
    /\ card_counter * 2 = total_cards
    /\ BagCardinality(cards) * 2 = total_cards

\* the cards dealt before the current round began
DealtBeforeRound ==
    card_counter - Len(HeldCards(user_hand)) - Len(HeldCards(dealer_hand))

\* C19: the initial deal starts from two empty hands and hands out one card
\* per step, to the dealer when both hands hold equally many and to the
\* user otherwise, each step raising card_counter by 1; it ends when the
\* user holds two cards, so the user turn begins with two cards in each
\* hand and card_counter four above its value at the bet.
C19_InitialDeal ==
    /\ [][AwaitBet /\ Dealt' =>
            user_hand' = Hand /\ dealer_hand' = Hand]_vars
    /\ [][Dealt =>
            /\ ~Aborted'
            /\ card_counter' = card_counter + 1
            /\ IF Len(dealer_hand.hand_cards) = Len(user_hand.hand_cards)
               THEN DealerHanded /\ UNCHANGED user_hand
               ELSE UserHanded /\ UNCHANGED dealer_hand
            /\ UserTurn' <=> Len(user_hand'.hand_cards) = 2
            /\ DealtBeforeRound' = DealtBeforeRound]_vars
    /\ [](Dealt => /\ Len(user_hand.hand_cards) < 2
                   /\ Len(dealer_hand.hand_cards) - Len(user_hand.hand_cards)
                        \in {0, 1})
    /\ [][Dealt /\ UserTurn' =>
            /\ Len(user_hand'.hand_cards) = 2
            /\ Len(dealer_hand'.hand_cards) = 2
            /\ card_counter' = DealtBeforeRound + 4]_vars

C19_Witness ==
    /\ UserTurn
    /\ Len(user_hand.hand_cards) = 2
    /\ Len(dealer_hand.hand_cards) = 2
    /\ rounds = 2
    /\ card_counter = total_cards

\* a deal is the next thing the round does
DealPending ==
    \/ Dealt
    \/ UserTurn /\ can_hit(user_hand)
    \/ DealerTurn /\ advised_to_hit(dealer_hand)

\* C12: in a round from the standard one-deck shoe, started as play()
\* starts it, the pool holds a card whenever one is to be dealt, whatever
\* the user chooses and whatever the order of the cards: no deal ever
\* returns None and the round never fails on it.
C12_PoolNeverEmpty ==
    /\ pc # "crashed"
    /\ DealPending => PoolSize >= 1
    /\ PoolSize + card_counter = BagCardinality(StandardDeck)

C12_Witness ==
    /\ DealPending
    /\ DealerTurn
    /\ card_counter >= LastCountUnshuffled(total_cards) + 15

\* the value of a hand with every ace counted as 1
HardValue(h) == h.hand_value - 10 * h.number_of_aces

\* C20: a round whose input requests are all answered ends in Cleanup.
\* Each hit of the user is made with the hand below 21 and each hit of the
\* dealer with the hand below 17, and each hit raises the hand's value with
\* aces counted as 1, which never exceeds the hand value: so each turn has
\* finitely many hits, whatever the user chooses and although hand_value
\* itself can fall on a hit.
C20_RoundTerminates ==
    /\ Dealt ~> Cleanup
    /\ [](/\ 0 <= HardValue(user_hand)
          /\ HardValue(user_hand) <= user_hand.hand_value
          /\ 0 <= HardValue(dealer_hand)
          /\ HardValue(dealer_hand) <= dealer_hand.hand_value)
    /\ [][/\ UserTurn /\ user_hand' # user_hand
             => /\ user_hand.hand_value < 21
                /\ HardValue(user_hand') > HardValue(user_hand)
          /\ DealerTurn /\ dealer_hand' # dealer_hand
             => /\ dealer_hand.hand_value < 17
                /\ HardValue(dealer_hand') > HardValue(dealer_hand)]_vars

\* a round in Cleanup after hits of the user and of the dealer, both hands
\* with aces demoted to 1
C20_Witness ==
    /\ Cleanup
    /\ card_counter >= LastCountUnshuffled(total_cards) + 13
    /\ user_hand.number_of_aces = 0
    /\ dealer_hand.number_of_aces = 0
    /\ CopiesIn(Card("ace", "any"), cards) <= 2

====
